---- MODULE Spec2Model ----
(***************************************************************************)
(* A model of yunnet/chillon: the FTP server's accept loop and shutdown    *)
(* (Server.Serve, Server.Shutdown) and the file-system driver (FileDriver).*)
(* Two specifications share the module: Spec is the accept loop racing     *)
(* with Shutdown callers and sessions; SpecFS is a sequence of FileDriver  *)
(* calls against a file tree.                                              *)
(***************************************************************************)
EXTENDS Integers, Sequences, FiniteSets, TLC

VARIABLES
    listener,   \* Server.listener: "nil" or "l"
    cancel,     \* Server.cancel: "nil" or "set"
    ctx,        \* Server.ctx: "nil", "live" or "done" (cancelled)
    lnOpen,     \* the net.Listener handed to Serve has not been closed
    servePC,    \* position of the goroutine running ListenAndServe/Serve
    serveRet,   \* what Serve / ListenAndServe returned
    acceptErr,  \* Serve's local err after Accept
    conns,      \* the connections Accept has returned, in order
    shut,       \* the Shutdown callers: position, result
    root,       \* FileDriver.RootPath (a string: a sequence of characters)
    fs,         \* the file tree: location -> node
    last        \* the FileDriver call that has just returned, or NoCall

srvVars == <<listener, cancel, ctx, lnOpen, servePC, serveRet, acceptErr, conns, shut>>
fsVars == <<root, fs, last>>
vars == <<listener, cancel, ctx, lnOpen, servePC, serveRet, acceptErr, conns, shut,
          root, fs, last>>

(***************************************************************************)
(* Bounds                                                                  *)
(***************************************************************************)
MaxConns == 2
MaxShutdowns == 2
MaxSegs == 2
MaxEntries == 3
MaxFileLen == 2
MaxDataLen == 1
MaxOffset == 3

(***************************************************************************)
(* The server: part_000 (server.go)                                        *)
(***************************************************************************)
ErrServerClosed == "ErrServerClosed"

\* what a driver call hands back when it hands back nothing, and the record of
\* no call
NoOut == [names |-> <<>>, data |-> <<>>, size |-> 0, isDir |-> FALSE]
NoCall == [op |-> "none", path |-> <<>>, path2 |-> <<>>, arg |-> <<>>,
           err |-> FALSE, out |-> NoOut]

Callers == 1..MaxShutdowns

\* a connection as Accept returns it, before Serve has done anything with it
NewTcpConn == [open |-> TRUE, driverCalls |-> 0, driver |-> "none",
               initCalls |-> 0, session |-> "none"]

\* NewServer: no listener, no context, nothing accepted
InitServer ==
    /\ listener = "nil"
    /\ cancel = "nil"
    /\ ctx = "nil"
    /\ lnOpen = TRUE
    /\ servePC = "idle"
    /\ serveRet = "none"
    /\ acceptErr = "none"
    /\ conns = <<>>
    /\ shut = [k \in Callers |-> [pc |-> "idle", afterServe |-> FALSE, ret |-> "none"]]

\* ListenAndServe: net.Listen fails and the error is returned, or Serve(listener)
ListenAndServe ==
    /\ servePC = "idle"
    /\ \E ok \in BOOLEAN :
          IF ok
          THEN /\ servePC' = "start"
               /\ serveRet' = serveRet
          ELSE /\ servePC' = "returned"
               /\ serveRet' = "listenErr"
    /\ UNCHANGED <<listener, cancel, ctx, lnOpen, acceptErr, conns, shut, fsVars>>

\* Serve, line 242: s.listener = l
ServeStoreListener ==
    /\ servePC = "start"
    /\ listener' = "l"
    /\ servePC' = "mkctx"
    /\ UNCHANGED <<cancel, ctx, lnOpen, serveRet, acceptErr, conns, shut, fsVars>>

\* Serve, line 243: s.ctx, s.cancel = context.WithCancel(context.Background())
ServeMakeContext ==
    /\ servePC = "mkctx"
    /\ ctx' = "live"
    /\ cancel' = "set"
    /\ servePC' = "accept"
    /\ UNCHANGED <<listener, lnOpen, serveRet, acceptErr, conns, shut, fsVars>>

\* Serve, line 246: Accept returns a connection
AcceptConn ==
    /\ servePC = "accept"
    /\ lnOpen
    /\ Len(conns) < MaxConns
    /\ conns' = Append(conns, NewTcpConn)
    /\ acceptErr' = "none"
    /\ servePC' = "newDriver"
    /\ UNCHANGED <<listener, cancel, ctx, lnOpen, serveRet, shut, fsVars>>

\* Serve, line 246: Accept returns an error: the closed listener's, or while the
\* listener is open a temporary or a fatal network error
AcceptError ==
    /\ servePC = "accept"
    /\ \E e \in (IF lnOpen THEN {"temporary", "fatal"} ELSE {"closed"}) :
          acceptErr' = e
    /\ servePC' = "acceptErr"
    /\ UNCHANGED <<listener, cancel, ctx, lnOpen, serveRet, conns, shut, fsVars>>

\* variant of HandleAcceptError that returns on a temporary error too
HandleAcceptErrorMutant ==
    /\ servePC = "acceptErr"
    /\ IF ctx = "done"
       THEN /\ servePC' = "returned"
            /\ serveRet' = ErrServerClosed
       ELSE /\ servePC' = "returned"
            /\ serveRet' = acceptErr
    /\ acceptErr' = "none"
    /\ UNCHANGED <<listener, cancel, ctx, lnOpen, conns, shut, fsVars>>

\* Serve, lines 247-258: ctx done -> ErrServerClosed; temporary -> continue;
\* otherwise return err
HandleAcceptError ==
    /\ servePC = "acceptErr"
    /\ IF ctx = "done"
       THEN /\ servePC' = "returned"
            /\ serveRet' = ErrServerClosed
       ELSE IF acceptErr = "temporary"
            THEN /\ servePC' = "accept"
                 /\ serveRet' = serveRet
            ELSE /\ servePC' = "returned"
                 /\ serveRet' = acceptErr
    /\ acceptErr' = "none"
    /\ UNCHANGED <<listener, cancel, ctx, lnOpen, conns, shut, fsVars>>

\* Serve, line 259: driver, err := s.Factory.NewDriver()
NewDriver ==
    /\ servePC = "newDriver"
    /\ \E ok \in BOOLEAN :
          /\ conns' = [conns EXCEPT ![Len(conns)] =
                          [@ EXCEPT !.driverCalls = @ + 1,
                                    !.driver = IF ok THEN "ok" ELSE "fail"]]
          /\ servePC' = IF ok THEN "newConn" ELSE "closeConn"
    /\ UNCHANGED <<listener, cancel, ctx, lnOpen, serveRet, acceptErr, shut, fsVars>>

\* variant of CloseConn that leaves the connection open
CloseConnMutant ==
    /\ servePC = "closeConn"
    /\ servePC' = "accept"
    /\ UNCHANGED <<listener, cancel, ctx, lnOpen, serveRet, acceptErr, shut, conns, fsVars>>

\* Serve, lines 260-262: NewDriver failed: log, tcpConn.Close(), next iteration
CloseConn ==
    /\ servePC = "closeConn"
    /\ conns' = [conns EXCEPT ![Len(conns)] = [@ EXCEPT !.open = FALSE]]
    /\ servePC' = "accept"
    /\ UNCHANGED <<listener, cancel, ctx, lnOpen, serveRet, acceptErr, shut, fsVars>>

\* Serve, line 264 and newConn: the Conn is built and driver.Init(conn) called
NewConn ==
    /\ servePC = "newConn"
    /\ conns' = [conns EXCEPT ![Len(conns)] = [@ EXCEPT !.initCalls = @ + 1]]
    /\ servePC' = "spawn"
    /\ UNCHANGED <<listener, cancel, ctx, lnOpen, serveRet, acceptErr, shut, fsVars>>

\* Serve, line 265: go ftpConn.Serve(), next iteration
GoServe ==
    /\ servePC = "spawn"
    /\ conns' = [conns EXCEPT ![Len(conns)] = [@ EXCEPT !.session = "running"]]
    /\ servePC' = "accept"
    /\ UNCHANGED <<listener, cancel, ctx, lnOpen, serveRet, acceptErr, shut, fsVars>>

\* a session ends by itself (QUIT, EOF or an error on the control stream) and
\* closes its control connection
SessionEnd(c) ==
    /\ conns[c].session = "running"
    /\ conns' = [conns EXCEPT ![c] = [@ EXCEPT !.session = "ended", !.open = FALSE]]
    /\ UNCHANGED <<listener, cancel, ctx, lnOpen, servePC, serveRet, acceptErr, shut, fsVars>>

\* a caller enters Shutdown; afterServe records whether the Serve loop had been
\* started and had not returned when it did
ShutdownCall(k) ==
    /\ shut[k].pc = "idle"
    /\ shut' = [shut EXCEPT ![k] =
                   [@ EXCEPT !.pc = "cancel",
                             !.afterServe = servePC \notin {"idle", "returned"}]]
    /\ UNCHANGED <<listener, cancel, ctx, lnOpen, servePC, serveRet, acceptErr, conns, fsVars>>

\* Shutdown, lines 272-274: if s.cancel != nil { s.cancel() }
ShutdownCancel(k) ==
    /\ shut[k].pc = "cancel"
    /\ ctx' = IF cancel # "nil" THEN "done" ELSE ctx
    /\ shut' = [shut EXCEPT ![k] = [@ EXCEPT !.pc = "close"]]
    /\ UNCHANGED <<listener, cancel, lnOpen, servePC, serveRet, acceptErr, conns, fsVars>>

\* variant of ShutdownClose that also closes every accepted connection
ShutdownCloseMutant(k) ==
    /\ shut[k].pc = "close"
    /\ lnOpen' = IF listener # "nil" THEN FALSE ELSE lnOpen
    /\ conns' = [c \in DOMAIN conns |-> [conns[c] EXCEPT !.open = FALSE]]
    /\ shut' = [shut EXCEPT ![k] = [@ EXCEPT !.pc = "done", !.ret = "nil"]]
    /\ UNCHANGED <<listener, cancel, ctx, servePC, serveRet, acceptErr, fsVars>>

\* Shutdown, lines 276-281: if s.listener != nil { return s.listener.Close() };
\* return nil.  Close of a listener already closed returns an error.
ShutdownClose(k) ==
    /\ shut[k].pc = "close"
    /\ lnOpen' = IF listener # "nil" THEN FALSE ELSE lnOpen
    /\ shut' = [shut EXCEPT ![k] =
                   [@ EXCEPT !.pc = "done",
                             !.ret = IF listener # "nil" /\ ~lnOpen
                                     THEN "closeErr" ELSE "nil"]]
    /\ UNCHANGED <<listener, cancel, ctx, servePC, serveRet, acceptErr, conns, fsVars>>

Next ==
    \/ ListenAndServe
    \/ ServeStoreListener
    \/ ServeMakeContext
    \/ AcceptConn
    \/ AcceptError
    \/ HandleAcceptError
    \/ NewDriver
    \/ CloseConn
    \/ NewConn
    \/ GoServe
    \/ \E c \in 1..MaxConns : c <= Len(conns) /\ SessionEnd(c)
    \/ \E k \in Callers : ShutdownCall(k)
    \/ \E k \in Callers : ShutdownCancel(k)
    \/ \E k \in Callers : ShutdownClose(k)

(***************************************************************************)
(* Strings are sequences of one-character strings.  strings.Split and the   *)
(* path/filepath functions the driver calls, as they compute on Unix.       *)
(***************************************************************************)
Slash == "/"
Dot == <<".">>
DotDot == <<".", ".">>

HasSlash(s) == \E i \in 1..Len(s) : s[i] = Slash
FirstSlash(s) == CHOOSE i \in 1..Len(s) : s[i] = Slash /\ \A j \in 1..(i - 1) : s[j] # Slash

RECURSIVE Split(_)
\* strings.Split(s, "/"): the pieces between the slashes, empty pieces kept
Split(s) ==
    IF ~HasSlash(s) THEN <<s>>
    ELSE <<SubSeq(s, 1, FirstSlash(s) - 1)>> \o Split(SubSeq(s, FirstSlash(s) + 1, Len(s)))

RECURSIVE StrJoin(_)
\* strings.Join(elems, "/")
StrJoin(elems) ==
    IF Len(elems) = 0 THEN <<>>
    ELSE IF Len(elems) = 1 THEN elems[1]
    ELSE elems[1] \o <<Slash>> \o StrJoin(Tail(elems))

Rooted(s) == Len(s) > 0 /\ s[1] = Slash

RECURSIVE CleanComps(_, _, _)
\* the loop of filepath.Clean over the path's elements: empty and "." elements
\* are dropped, ".." removes the element before it, or is dropped at the root,
\* or is kept when the path is not rooted and nothing is left to remove
CleanComps(comps, out, rooted) ==
    IF Len(comps) = 0 THEN out
    ELSE LET c == Head(comps)
             rest == Tail(comps)
         IN  IF c = <<>> \/ c = Dot THEN CleanComps(rest, out, rooted)
             ELSE IF c = DotDot
             THEN IF Len(out) > 0 /\ out[Len(out)] # DotDot
                  THEN CleanComps(rest, SubSeq(out, 1, Len(out) - 1), rooted)
                  ELSE IF rooted THEN CleanComps(rest, out, rooted)
                  ELSE CleanComps(rest, Append(out, c), rooted)
             ELSE CleanComps(rest, Append(out, c), rooted)

\* filepath.Clean
Clean(s) ==
    IF s = <<>> THEN Dot
    ELSE LET out == CleanComps(Split(s), <<>>, Rooted(s))
         IN  IF Rooted(s) THEN <<Slash>> \o StrJoin(out)
             ELSE IF Len(out) = 0 THEN Dot
             ELSE StrJoin(out)

RECURSIVE DropEmpty(_)
DropEmpty(elems) ==
    IF Len(elems) = 0 THEN <<>>
    ELSE IF Head(elems) = <<>> THEN DropEmpty(Tail(elems))
    ELSE elems

\* filepath.Join: the elements from the first non-empty one on, joined and cleaned
Join(elems) ==
    IF Len(DropEmpty(elems)) = 0 THEN <<>>
    ELSE Clean(StrJoin(DropEmpty(elems)))

\* the name os.Lstat reports for a path (os.basename)
Basename(s) ==
    IF s = <<Slash>> THEN s ELSE Split(s)[Len(Split(s))]

\* the elements of a cleaned path, "." and the root having none
Elems(s) ==
    IF s = Dot \/ s = <<>> THEN <<>>
    ELSE IF Rooted(s) THEN DropEmpty(Tail(Split(s)))
    ELSE Split(s)

RECURSIVE CommonLen(_, _)
CommonLen(a, b) ==
    IF Len(a) = 0 \/ Len(b) = 0 \/ Head(a) # Head(b) THEN 0
    ELSE 1 + CommonLen(Tail(a), Tail(b))

\* filepath.Rel(base, targ); the empty string stands for its error, which
\* ListDir discards
Rel(base, targ) ==
    LET b == Clean(base)
        t == Clean(targ)
        bc == Elems(b)
        tc == Elems(t)
        k == CommonLen(bc, tc)
        up == [i \in 1..(Len(bc) - k) |-> DotDot]
    IN  IF t = b THEN Dot
        ELSE IF Rooted(b) # Rooted(t) THEN <<>>
        ELSE IF Len(bc) > k /\ bc[k + 1] = DotDot THEN <<>>
        ELSE StrJoin(up \o SubSeq(tc, k + 1, Len(tc)))

\* filepath.Abs: a path that is not rooted is joined to the working directory
Cwd == <<Slash>>
Abs(s) == IF Rooted(s) THEN Clean(s) ELSE Join(<<Cwd, s>>)

\* FileDriver.realPath
realPath(rootPath, path) == Join(<<rootPath>> \o Split(path))

(***************************************************************************)
(* The file tree and the os calls the driver makes.  A location is the      *)
(* sequence of names from the file system's root; the process's working     *)
(* directory is that root.  fs maps each existing location to its node.     *)
(***************************************************************************)
DirNode == [dir |-> TRUE, data |-> <<>>]
FileNode(d) == [dir |-> FALSE, data |-> d]

RECURSIVE Resolve(_, _)
\* the kernel's walk of a cleaned path's elements from a location
Resolve(loc, elems) ==
    IF Len(elems) = 0 THEN loc
    ELSE IF Head(elems) = DotDot
    THEN Resolve(IF Len(loc) = 0 THEN loc ELSE SubSeq(loc, 1, Len(loc) - 1), Tail(elems))
    ELSE Resolve(Append(loc, Head(elems)), Tail(elems))

\* the location a path names
Loc(s) == Resolve(<<>>, Elems(s))

Parent(l) == SubSeq(l, 1, Len(l) - 1)
IsPrefix(a, b) == Len(a) <= Len(b) /\ SubSeq(b, 1, Len(a)) = a
Children(f, l) == {c \in DOMAIN f : Len(c) = Len(l) + 1 /\ IsPrefix(l, c)}

\* the outcome of looking a path up: "ok", or the errno
Lookup(f, s) ==
    LET l == Loc(s)
    IN  IF s = <<>> THEN "ENOENT"
        ELSE IF l \in DOMAIN f THEN "ok"
        ELSE IF \E n \in 1..(Len(l) - 1) :
                   SubSeq(l, 1, n) \in DOMAIN f /\ ~f[SubSeq(l, 1, n)].dir
             THEN "ENOTDIR"
             ELSE "ENOENT"

IsDir(f, s) == Lookup(f, s) = "ok" /\ f[Loc(s)].dir

Without(f, gone) == [l \in DOMAIN f \ gone |-> f[l]]
With(f, l, node) == [x \in DOMAIN f \cup {l} |-> IF x = l THEN node ELSE f[x]]

\* os.Remove: unlink, or rmdir of an empty directory other than the root
OsRemove(f, s) ==
    IF Lookup(f, s) # "ok" \/ Loc(s) = <<>> THEN [err |-> TRUE, fs |-> f]
    ELSE IF f[Loc(s)].dir /\ Children(f, Loc(s)) # {} THEN [err |-> TRUE, fs |-> f]
    ELSE [err |-> FALSE, fs |-> Without(f, {Loc(s)})]

\* os.Create: O_RDWR|O_CREATE|O_TRUNC
OsCreate(f, s) ==
    IF s = <<>> \/ IsDir(f, s) THEN [err |-> TRUE, fs |-> f]
    ELSE IF Parent(Loc(s)) \notin DOMAIN f \/ ~f[Parent(Loc(s))].dir
    THEN [err |-> TRUE, fs |-> f]
    ELSE [err |-> FALSE, fs |-> With(f, Loc(s), FileNode(<<>>))]

\* os.MkdirAll: nil when the directory exists, an error when the path or one
\* of its parents is a file, otherwise every missing directory is made
OsMkdirAll(f, s) ==
    LET l == Loc(s)
        prefixes == {SubSeq(l, 1, n) : n \in 0..Len(l)}
    IN  IF s = <<>> \/ \E p \in prefixes : p \in DOMAIN f /\ ~f[p].dir
        THEN [err |-> TRUE, fs |-> f]
        ELSE [err |-> FALSE,
              fs |-> [x \in DOMAIN f \cup prefixes |->
                         IF x \in DOMAIN f THEN f[x] ELSE DirNode]]

\* os.Rename: refused when the new name is a directory; otherwise rename(2)
OsRename(f, old, new) ==
    LET lo == Loc(old)
        ln == Loc(new)
        moved == {l \in DOMAIN f : IsPrefix(lo, l)}
        target(l) == ln \o SubSeq(l, Len(lo) + 1, Len(l))
        kept == DOMAIN f \ (moved \cup {ln})
    IN  IF Lookup(f, old) # "ok" THEN [err |-> TRUE, fs |-> f]
        ELSE IF IsDir(f, new) THEN [err |-> TRUE, fs |-> f]
        ELSE IF new = <<>> \/ lo = <<>> THEN [err |-> TRUE, fs |-> f]
        ELSE IF Parent(ln) \notin DOMAIN f \/ ~f[Parent(ln)].dir
        THEN [err |-> TRUE, fs |-> f]
        ELSE IF lo = ln THEN [err |-> FALSE, fs |-> f]
        ELSE IF f[lo].dir /\ (IsPrefix(lo, ln) \/ ln \in DOMAIN f)
        THEN [err |-> TRUE, fs |-> f]
        ELSE [err |-> FALSE,
              fs |-> [x \in kept \cup {target(l) : l \in moved} |->
                         IF x \in kept THEN f[x]
                         ELSE f[CHOOSE l \in moved : target(l) = x]]]

(***************************************************************************)
(* The driver: server/filedriver.go.  Each operation is an operator from    *)
(* the tree and the arguments to [err, fs, out]: whether it returned an     *)
(* error, the tree it leaves, and what it handed back.                      *)
(***************************************************************************)
Result(e, f, o) == [err |-> e, fs |-> f, out |-> o]

\* FileDriver.ChangeDir
ChangeDir(rp, f, path) ==
    LET rPath == realPath(rp, path)
    IN  IF Lookup(f, rPath) # "ok" THEN Result(TRUE, f, NoOut)
        ELSE IF f[Loc(rPath)].dir THEN Result(FALSE, f, NoOut)
        ELSE Result(TRUE, f, NoOut)

\* FileDriver.Stat; permErr: one of Perm's GetMode, GetOwner, GetGroup fails
Stat(rp, f, path, permErr) ==
    LET rPath == Abs(realPath(rp, path))
    IN  IF Lookup(f, rPath) # "ok" THEN Result(TRUE, f, NoOut)
        ELSE IF permErr THEN Result(TRUE, f, NoOut)
        ELSE Result(FALSE, f,
                    [names |-> <<Basename(rPath)>>, data |-> <<>>,
                     size |-> Len(f[Loc(rPath)].data), isDir |-> f[Loc(rPath)].dir])

\* the order in which filepath.Walk reads a directory: sorted by name
NameLess(a, b) ==
    \/ Len(a) < Len(b) /\ \A i \in 1..Len(a) : a[i] = b[i]
    \/ \E i \in 1..Len(a) :
          /\ i <= Len(b)
          /\ \A j \in 1..(i - 1) : a[j] = b[j]
          /\ (a[i] = "." \/ (a[i] = "a" /\ b[i] \in {"b", "u"}) \/ (a[i] = "b" /\ b[i] = "u"))
          /\ a[i] # b[i]

RECURSIVE Sorted(_)
Sorted(S) ==
    IF S = {} THEN <<>>
    ELSE LET m == CHOOSE x \in S : \A y \in S \ {x} : NameLess(x, y)
         IN  <<m>> \o Sorted(S \ {m})

\* ListDir's walk function on one visited path f with Lstat name `name`:
\* "emit" when the callback is invoked, and what it returns to filepath.Walk
Visit(basepath, p, name, isDir, permErr) ==
    IF Rel(basepath, p) = name
    THEN IF permErr THEN [emit |-> FALSE, ret |-> "err"]
         ELSE [emit |-> TRUE, ret |-> IF isDir THEN "SkipDir" ELSE "nil"]
    ELSE [emit |-> FALSE, ret |-> "nil"]

RECURSIVE WalkNames(_, _, _, _, _, _)
\* filepath.Walk over the sorted names of directory dir: a file is visited; a
\* directory is visited and, unless the visit returns SkipDir, descended into;
\* an error ends the walk
WalkNames(basepath, dir, f, names, permErr, acc) ==
    IF Len(names) = 0 THEN [err |-> FALSE, names |-> acc]
    ELSE LET child == Join(<<dir, Head(names)>>)
             v == Visit(basepath, child, Basename(child), f[Loc(child)].dir, permErr)
             acc2 == IF v.emit THEN Append(acc, Head(names)) ELSE acc
         IN  IF v.ret = "err" THEN [err |-> TRUE, names |-> acc2]
             ELSE IF f[Loc(child)].dir /\ v.ret = "nil"
             THEN LET sub == WalkNames(basepath, child, f,
                                 Sorted({c[Len(c)] : c \in Children(f, Loc(child))}),
                                 permErr, acc2)
                  IN  IF sub.err THEN sub
                      ELSE WalkNames(basepath, dir, f, Tail(names), permErr, sub.names)
             ELSE WalkNames(basepath, dir, f, Tail(names), permErr, acc2)

\* FileDriver.ListDir: filepath.Walk(basepath, fn), the callback collecting the
\* names it is given
ListDir(rp, f, path, permErr) ==
    LET basepath == realPath(rp, path)
        rootVisit == Visit(basepath, basepath, Basename(basepath),
                           IsDir(f, basepath), permErr)
        first == IF rootVisit.emit THEN <<Basename(basepath)>> ELSE <<>>
        rest == WalkNames(basepath, basepath, f,
                          Sorted({c[Len(c)] : c \in Children(f, Loc(basepath))}),
                          permErr, first)
    IN  IF Lookup(f, basepath) # "ok" THEN Result(TRUE, f, NoOut)
        ELSE IF rootVisit.ret = "err" THEN Result(TRUE, f, NoOut)
        ELSE IF ~IsDir(f, basepath) \/ rootVisit.ret = "SkipDir"
        THEN Result(FALSE, f, [NoOut EXCEPT !.names = first])
        ELSE Result(rest.err, f, [NoOut EXCEPT !.names = rest.names])

\* variant of DeleteDir without the IsDir test
DeleteDirMutant(rp, f, path) ==
    LET rPath == realPath(rp, path)
    IN  IF Lookup(f, rPath) # "ok" THEN Result(TRUE, f, NoOut)
        ELSE Result(OsRemove(f, rPath).err, OsRemove(f, rPath).fs, NoOut)

\* FileDriver.DeleteDir
DeleteDir(rp, f, path) ==
    LET rPath == realPath(rp, path)
    IN  IF Lookup(f, rPath) # "ok" THEN Result(TRUE, f, NoOut)
        ELSE IF f[Loc(rPath)].dir
        THEN Result(OsRemove(f, rPath).err, OsRemove(f, rPath).fs, NoOut)
        ELSE Result(TRUE, f, NoOut)

\* FileDriver.DeleteFile
DeleteFile(rp, f, path) ==
    LET rPath == realPath(rp, path)
    IN  IF Lookup(f, rPath) # "ok" THEN Result(TRUE, f, NoOut)
        ELSE IF ~f[Loc(rPath)].dir
        THEN Result(OsRemove(f, rPath).err, OsRemove(f, rPath).fs, NoOut)
        ELSE Result(TRUE, f, NoOut)

\* variant of Rename that does not map toPath beneath RootPath
RenameMutant(rp, f, fromPath, toPath) ==
    LET r == OsRename(f, realPath(rp, fromPath), Clean(toPath))
    IN  Result(r.err, r.fs, NoOut)

\* FileDriver.Rename
Rename(rp, f, fromPath, toPath) ==
    LET r == OsRename(f, realPath(rp, fromPath), realPath(rp, toPath))
    IN  Result(r.err, r.fs, NoOut)

\* FileDriver.MakeDir
MakeDir(rp, f, path) ==
    LET r == OsMkdirAll(f, realPath(rp, path))
    IN  Result(r.err, r.fs, NoOut)

\* r.Seek(offset, io.SeekStart) on a file just opened: a negative offset is
\* refused and the position stays 0 (GetFile drops Seek's error)
Seek(offset) == IF offset < 0 THEN 0 ELSE offset

\* variant of GetFile without the Seek
GetFileMutant(rp, f, path, offset) ==
    LET rPath == realPath(rp, path)
        node == f[Loc(rPath)]
    IN  IF Lookup(f, rPath) # "ok" THEN Result(TRUE, f, NoOut)
        ELSE Result(FALSE, f,
                    [names |-> <<>>, data |-> node.data,
                     size |-> Len(node.data), isDir |-> node.dir])

\* FileDriver.GetFile: the size, and in out.data what the returned reader
\* delivers until EOF (a directory's reader delivers nothing: read fails)
GetFile(rp, f, path, offset) ==
    LET rPath == realPath(rp, path)
        node == f[Loc(rPath)]
    IN  IF Lookup(f, rPath) # "ok" THEN Result(TRUE, f, NoOut)
        ELSE Result(FALSE, f,
                    [names |-> <<>>,
                     data |-> IF node.dir THEN <<>>
                              ELSE SubSeq(node.data, Seek(offset) + 1, Len(node.data)),
                     size |-> Len(node.data), isDir |-> node.dir])

\* variant of PutFile that truncates whatever appendData says
PutFileMutant(rp, f, destPath, data, appendData, readErr) ==
    LET rPath == realPath(rp, destPath)
        st == Lookup(f, rPath)
        created == OsCreate(f, rPath)
    IN  IF st = "ok" /\ f[Loc(rPath)].dir THEN Result(TRUE, f, NoOut)
        ELSE IF st = "ENOTDIR" THEN Result(TRUE, f, NoOut)
        ELSE IF created.err THEN Result(TRUE, f, NoOut)
        ELSE Result(readErr, With(created.fs, Loc(rPath), FileNode(data)),
                    [NoOut EXCEPT !.size = Len(data)])

\* FileDriver.PutFile; readErr: the data reader fails after delivering data,
\* so io.Copy has written data and returns the error
PutFile(rp, f, destPath, data, appendData, readErr) ==
    LET rPath == realPath(rp, destPath)
        st == Lookup(f, rPath)
        isExist == st = "ok"
        app == appendData /\ isExist
        removed == IF isExist THEN OsRemove(f, rPath) ELSE [err |-> FALSE, fs |-> f]
        created == OsCreate(removed.fs, rPath)
    IN  IF isExist /\ f[Loc(rPath)].dir THEN Result(TRUE, f, NoOut)
        ELSE IF st = "ENOTDIR" THEN Result(TRUE, f, NoOut)
        ELSE IF ~app
        THEN IF removed.err THEN Result(TRUE, f, NoOut)
             ELSE IF created.err THEN Result(TRUE, removed.fs, NoOut)
             ELSE Result(readErr, With(created.fs, Loc(rPath), FileNode(data)),
                         [NoOut EXCEPT !.size = Len(data)])
        ELSE Result(readErr, With(f, Loc(rPath), FileNode(f[Loc(rPath)].data \o data)),
                    [NoOut EXCEPT !.size = Len(data)])

InitNoFS ==
    /\ root = <<>>
    /\ fs = <<>>
    /\ last = NoCall

(***************************************************************************)
(* SpecFS: FileDriver calls, one at a time, on one driver.                  *)
(***************************************************************************)
Names == {<<"a">>, <<"b">>}
Segs == Names \cup {<<>>, DotDot}
Paths == {StrJoin(segs) : segs \in UNION {[1..n -> Segs] : n \in 1..MaxSegs}}
Bytes == {1, 2}
Datas == UNION {[1..n -> Bytes] : n \in 0..MaxDataLen}
Offsets == 0..MaxOffset
Roots == {<<"u">>, Dot}

\* the tree stays within the model's size
Fits(f) ==
    /\ Cardinality(DOMAIN f) <= MaxEntries
    /\ \A l \in DOMAIN f : Len(f[l].data) <= MaxFileLen

\* main: the upload directory is made if missing, and the factory's RootPath
\* names it
InitDriver ==
    /\ root \in Roots
    /\ fs = OsMkdirAll([l \in {<<>>} |-> DirNode], root).fs
    /\ last = NoCall

InitNoServer ==
    /\ listener = "nil"
    /\ cancel = "nil"
    /\ ctx = "nil"
    /\ lnOpen = TRUE
    /\ servePC = "idle"
    /\ serveRet = "none"
    /\ acceptErr = "none"
    /\ conns = <<>>
    /\ shut = <<>>

\* a call returns: the tree it leaves and the record of the call
Returns(op, path, path2, arg, r) ==
    /\ Fits(r.fs)
    /\ fs' = r.fs
    /\ last' = [op |-> op, path |-> path, path2 |-> path2, arg |-> arg,
                err |-> r.err, out |-> r.out]
    /\ UNCHANGED <<root, srvVars>>


CallChangeDir ==
    /\ last = NoCall
    /\ \E p \in Paths : Returns("ChangeDir", p, <<>>, <<>>, ChangeDir(root, fs, p))

CallStat ==
    /\ last = NoCall
    /\ \E p \in Paths, permErr \in BOOLEAN :
        Returns("Stat", p, <<>>, <<permErr>>, Stat(root, fs, p, permErr))

CallListDir ==
    /\ last = NoCall
    /\ \E p \in Paths, permErr \in BOOLEAN :
        Returns("ListDir", p, <<>>, <<permErr>>, ListDir(root, fs, p, permErr))

CallDeleteDir ==
    /\ last = NoCall
    /\ \E p \in Paths : Returns("DeleteDir", p, <<>>, <<>>, DeleteDir(root, fs, p))

CallDeleteFile ==
    /\ last = NoCall
    /\ \E p \in Paths : Returns("DeleteFile", p, <<>>, <<>>, DeleteFile(root, fs, p))

CallRename ==
    /\ last = NoCall
    /\ \E p \in Paths, q \in Paths : Returns("Rename", p, q, <<>>, Rename(root, fs, p, q))

CallMakeDir ==
    /\ last = NoCall
    /\ \E p \in Paths : Returns("MakeDir", p, <<>>, <<>>, MakeDir(root, fs, p))

CallGetFile ==
    /\ last = NoCall
    /\ \E p \in Paths, n \in Offsets :
        Returns("GetFile", p, <<>>, <<n>>, GetFile(root, fs, p, n))

CallPutFile ==
    /\ last = NoCall
    /\ \E p \in Paths, d \in Datas, app \in BOOLEAN, readErr \in BOOLEAN :
        Returns("PutFile", p, <<>>, <<d, app, readErr>>,
                PutFile(root, fs, p, d, app, readErr))

\* the command handler has replied: the driver is idle until the next call
Done ==
    /\ last # NoCall
    /\ last' = NoCall
    /\ UNCHANGED <<root, fs, srvVars>>

NextFS ==
    \/ CallChangeDir
    \/ CallStat
    \/ CallListDir
    \/ CallDeleteDir
    \/ CallDeleteFile
    \/ CallRename
    \/ CallMakeDir
    \/ CallGetFile
    \/ CallPutFile
    \/ Done

InitFS == InitDriver /\ InitNoServer

SpecFS == InitFS /\ [][NextFS]_vars

Init == InitServer /\ InitNoFS


Spec == Init /\ [][Next]_vars

(***************************************************************************)
(* Properties of the accept loop and Shutdown, under Spec                   *)
(***************************************************************************)
ShutdownDone == \E k \in Callers : shut[k].pc = "done" /\ shut[k].afterServe
NoShutdownRequested == \A k \in Callers : shut[k].pc = "idle"

\* C1: once a Shutdown called on a server whose Serve loop was started has
\* returned, the loop returns ErrServerClosed and no other error, whatever the
\* interleaving of Shutdown with Serve's steps.
C1_ShutdownReturnsErrServerClosed ==
    [][(ShutdownDone /\ servePC # "returned" /\ servePC' = "returned")
          => serveRet' = ErrServerClosed]_vars

\* C2: a step of Shutdown closes no accepted connection and changes no session:
\* every connection and session is after the step as it was before it.
C2_ShutdownLeavesSessions ==
    [][(\E k \in Callers : shut'[k].pc # shut[k].pc) => conns' = conns]_vars

\* C2's case: Shutdown has cancelled and closed the listener, and a session
\* spawned before it is still running on an open connection.
C2_Witness ==
    /\ \E k \in Callers : shut[k].pc = "done" /\ shut[k].afterServe
    /\ ~lnOpen
    /\ ctx = "done"
    /\ \E c \in 1..Len(conns) : conns[c].session = "running" /\ conns[c].open

Handled(i) == i < Len(conns) \/ servePC \in {"accept", "acceptErr", "returned"}

C7_Inv ==
    \A i \in 1..Len(conns) :
        /\ conns[i].driverCalls <= 1
        /\ Handled(i) =>
              /\ conns[i].driverCalls = 1
              /\ \/ /\ conns[i].driver = "ok"
                    /\ conns[i].initCalls = 1
                    /\ conns[i].session \in {"running", "ended"}
                    /\ conns[i].open \/ conns[i].session = "ended"
                 \/ /\ conns[i].driver = "fail"
                    /\ conns[i].initCalls = 0
                    /\ conns[i].session = "none"
                    /\ ~conns[i].open

C7_Step ==
    (servePC \in {"closeConn", "spawn"} /\ servePC' # servePC) => servePC' = "accept"

\* C7: for every accepted connection NewDriver is called exactly once, and then
\* either it succeeded and one session was initialised (Init once) and started,
\* or it failed and the connection was closed with no session; either way the
\* loop goes back to Accept.
C7_OneDriverPerAccept == []C7_Inv /\ [][C7_Step]_vars

\* C7's case: one accepted connection got a session, another was closed after
\* NewDriver failed, and the loop is back at Accept.
C7_Witness ==
    /\ servePC = "accept"
    /\ \E i \in 1..Len(conns) : conns[i].driver = "ok" /\ conns[i].session = "running"
    /\ \E i \in 1..Len(conns) : conns[i].driver = "fail" /\ ~conns[i].open

C8_Step ==
    (servePC = "acceptErr" /\ servePC' # servePC /\ NoShutdownRequested) =>
        IF acceptErr = "temporary"
        THEN servePC' = "accept" /\ serveRet' = "none"
        ELSE servePC' = "returned" /\ serveRet' = acceptErr

C8_Returned ==
    servePC = "returned" => (servePC' = "returned" /\ Len(conns') = Len(conns))

\* C8: with no shutdown requested, a temporary Accept error sends the loop back
\* to Accept without returning, any other Accept error makes Serve return that
\* error, and once Serve has returned no further connection is accepted.
C8_AcceptErrors == [][C8_Step /\ C8_Returned]_vars

\* C8's case: no Shutdown was ever called, connections were accepted, and Serve
\* has returned the fatal Accept error.
C8_Witness ==
    /\ NoShutdownRequested
    /\ servePC = "returned"
    /\ serveRet = "fatal"
    /\ Len(conns) > 0

(***************************************************************************)
(* Properties of the driver, under SpecFS                                   *)
(***************************************************************************)
RealOf(path) == realPath(root, path)
IsFile(f, s) == Lookup(f, s) = "ok" /\ ~f[Loc(s)].dir

C3_Step ==
    (last'.op = "PutFile" /\ ~last'.err) =>
        LET p == last'.path
            d == last'.arg[1]
            app == last'.arg[2]
            old == GetFile(root, fs, p, 0)
            new == GetFile(root, fs', p, 0)
        IN  /\ ~new.err
            /\ ~new.out.isDir
            /\ new.out.data = IF app /\ ~old.err /\ ~old.out.isDir
                              THEN old.out.data \o d
                              ELSE d

\* C3: after PutFile(p, D, append) returns without error, GetFile(p, 0) reads D
\* when append is false or p did not exist, and old(p) followed by D when
\* append is true and p was a file.
C3_PutThenGet == [][C3_Step]_vars

\* C3's case: an append of <<2>> to a file holding <<1>> has returned without
\* error and the file holds <<1, 2>>.
C3_Witness ==
    /\ last.op = "PutFile"
    /\ ~last.err
    /\ last.arg = <<<<2>>, TRUE, FALSE>>
    /\ GetFile(root, fs, last.path, 0).out.data = <<1, 2>>

C4_Step ==
    (last'.op = "GetFile" /\ IsFile(fs, RealOf(last'.path))) =>
        LET C == fs[Loc(RealOf(last'.path))].data
            n == last'.arg[1]
        IN  /\ ~last'.err
            /\ last'.out.data = SubSeq(C, n + 1, Len(C))
            /\ last'.out.size = Len(C)

\* C4: for an existing regular file p with content C and an offset n >= 0,
\* GetFile(p, n) returns a reader that delivers exactly C[n..], nothing when
\* n >= |C|.
C4_GetFileFromOffset == [][C4_Step]_vars

\* C4's case: GetFile at offset 1 of a file holding <<1, 2>> delivered <<2>>.
C4_Witness ==
    /\ last.op = "GetFile"
    /\ ~last.err
    /\ last.arg = <<1>>
    /\ last.out.size = 2
    /\ last.out.data = <<2>>
    /\ IsFile(fs, RealOf(last.path))
    /\ fs[Loc(RealOf(last.path))].data = <<1, 2>>

C5_After(a, b) ==
    /\ Stat(root, fs', a, FALSE).err
    /\ ~Stat(root, fs', b, FALSE).err

\* C5 as stated: for all virtual paths a and b, after Rename(a, b) returns
\* without error Stat(a) returns an error and Stat(b) succeeds.
C5_RenameMovesAnyPaths ==
    [][(last'.op = "Rename" /\ ~last'.err) => C5_After(last'.path, last'.path2)]_vars

\* C5 amended: the same, for a and b that do not name the same entry.
C5_RenameMoves ==
    [][(last'.op = "Rename" /\ ~last'.err
          /\ Loc(RealOf(last'.path)) # Loc(RealOf(last'.path2)))
          => C5_After(last'.path, last'.path2)]_vars

\* C5's case: a Rename between two different entries has returned without
\* error and the file's content is at the new name.
C5_Witness ==
    /\ last.op = "Rename"
    /\ ~last.err
    /\ Loc(RealOf(last.path)) # Loc(RealOf(last.path2))
    /\ IsFile(fs, RealOf(last.path2))
    /\ fs[Loc(RealOf(last.path2))].data = <<1>>
    /\ Lookup(fs, RealOf(last.path)) # "ok"

\* C6: ListDir on a directory, when it returns without error, has invoked the
\* callback exactly once for each direct child of the directory and for
\* nothing else, for every root path and virtual path.
C6_ListDirDirectChildren ==
    (last.op = "ListDir" /\ ~last.err /\ IsDir(fs, RealOf(last.path))) =>
        LET kids == {c[Len(c)] : c \in Children(fs, Loc(RealOf(last.path)))}
        IN  /\ Len(last.out.names) = Cardinality(kids)
            /\ {last.out.names[i] : i \in 1..Len(last.out.names)} = kids

C9_Step ==
    LET rPath == RealOf(last'.path)
    IN  /\ last'.op = "DeleteDir" =>
              IF last'.err THEN fs' = fs
              ELSE IsDir(fs, rPath) /\ fs' = Without(fs, {Loc(rPath)})
        /\ last'.op = "DeleteFile" =>
              IF last'.err THEN fs' = fs
              ELSE IsFile(fs, rPath) /\ fs' = Without(fs, {Loc(rPath)})

\* C9: DeleteDir removes the entry at p only when p is a directory, DeleteFile
\* only when p is not a directory, and whenever either returns an error the
\* file tree is exactly as it was before the call.
C9_DeleteOnlyRightKind == [][C9_Step]_vars

\* C9's case: DeleteDir of a directory that holds an entry has returned an
\* error, and the directory and its entry are still there.
C9_Witness ==
    /\ last.op = "DeleteDir"
    /\ last.err
    /\ IsDir(fs, RealOf(last.path))
    /\ Loc(RealOf(last.path)) # <<>>
    /\ Children(fs, Loc(RealOf(last.path))) # {}

UnderRoot(l) == IsPrefix(Loc(root), l)

\* C10: no driver operation changes (creates, removes or rewrites) an entry
\* that is not RootPath or beneath it, whatever virtual path it is given.
C10_NothingOutsideRoot ==
    [][\A l \in (DOMAIN fs \cup DOMAIN fs') :
          ~UnderRoot(l) => (l \in DOMAIN fs /\ l \in DOMAIN fs' /\ fs'[l] = fs[l])]_vars

====
